---- MODULE Spec2Model ----
(***************************************************************************)
(* Model of src/src/forecasting_utils.py: generate_forecast,               *)
(* ensemble_forecast and generate_scenarios.                               *)
(*                                                                         *)
(* Representation.                                                         *)
(*  - A float is a fixed-point integer counting 1/Scale units, so 55.0 is  *)
(*    Num(55) and the multiplier 1.10 is 66.  The inputs are chosen so     *)
(*    that every product is exact (frame values are whole numbers).        *)
(*  - float('nan') is the value NaN.                                       *)
(*  - A timestamp is a month-end date, numbered in months; a December      *)
(*    month-end is a multiple of 12, a quarter-end a multiple of 3.        *)
(*  - A DataFrame is a sequence of rows; each row carries its index label  *)
(*    idx (<<"ts", t>> for a Timestamp label, <<"int", n>> for an integer  *)
(*    label) next to its columns.  pd.DataFrame() is the empty sequence.   *)
(*  - A call is a state with pc = "call" holding the operation and its     *)
(*    arguments; the operation's action computes ret and sets pc = "done". *)
(***************************************************************************)
EXTENDS Integers, Sequences, FiniteSets, TLC

VARIABLES pc, op, args, ret

vars == <<pc, op, args, ret>>

\* ---------------------------------------------------------------- bounds
\* Largest number of periods a call asks for.
MaxPeriods == 2

\* Longest model_results_list (and weight list) a call passes.
MaxModels == 2

\* ---------------------------------------------------------------- floats
Scale == 60

NaN == -999999999

Num(n) == n * Scale

\* float * float, for a value v and a factor w, both in 1/Scale units.
Mul(v, w) == IF v = NaN \/ w = NaN THEN NaN ELSE (v * w) \div Scale

Add(a, b) == IF a = NaN \/ b = NaN THEN NaN ELSE a + b

\* a <= b on floats: every comparison with NaN is False.
Leq(a, b) == a # NaN /\ b # NaN /\ a <= b

\* ---------------------------------------------------------------- dates
\* Months between two anchors of a pandas frequency alias.
FreqStep(freq) == CASE freq = "A" -> 12
                    [] freq = "Q" -> 3
                    [] freq = "M" -> 1

\* The first anchor of the frequency that is >= t (pandas rolls the start of
\* a date_range forward onto the frequency's anchor).
RollForward(t, step) == ((t + step - 1) \div step) * step

\* pd.date_range(start=start, periods=n, freq=freq)
DateRange(start, n, freq) ==
    [i \in 1..n |-> RollForward(start, FreqStep(freq)) + (i - 1) * FreqStep(freq)]

\* ---------------------------------------------------------------- frames
Row(i, d, f, l, u) ==
    [idx |-> i, date |-> d, forecast |-> f, lower_ci |-> l, upper_ci |-> u]

EmptyFrame == <<>>

\* What a call hands back: the exception it raised ("None" when it returned)
\* and the value it returned.
Returned(v) == [exc |-> "None", val |-> v]

Raised(e) == [exc |-> e, val |-> EmptyFrame]

\* ---------------------------------------------------------- fitted models
\* The dict a fit returns.  kind = "none" is the {} of a failed fit (no
\* 'model' key); "arima" holds a statsmodels results object, "prophet" a
\* Prophet object.  dates are the training timestamps (model.data.dates for
\* ARIMA, the history for Prophet), regularly spaced.  The library's
\* prediction at offset o from the last training date is a linear trend
\* level + 5*o with the interval [point - below, point + above].
ModelResults(kind, dates, level, below, above) ==
    [kind |-> kind, dates |-> dates, level |-> level, below |-> below, above |-> above]

FailedFit == ModelResults("none", <<>>, 0, 0, 0)

LastDate(m) == m.dates[Len(m.dates)]

\* Spacing of the training index, the frequency statsmodels forecasts at.
TrainStep(m) == m.dates[2] - m.dates[1]

PredPoint(m, o) == Num(m.level + 5 * o)

PredLower(m, o) == Num(m.level + 5 * o - m.below)

PredUpper(m, o) == Num(m.level + 5 * o + m.above)

\* Prophet.make_future_dataframe(periods, freq) with its default
\* include_history=True: the history dates followed by the first `periods`
\* dates of the range that lie after the last history date.
RECURSIVE SelectAfter(_, _)
SelectAfter(s, last) ==
    IF s = <<>> THEN <<>>
    ELSE IF Head(s) > last THEN <<Head(s)>> \o SelectAfter(Tail(s), last)
         ELSE SelectAfter(Tail(s), last)

MakeFutureDataframe(m, periods, freq) ==
    m.dates \o SubSeq(SelectAfter(DateRange(LastDate(m), periods + 1, freq), LastDate(m)),
                      1, periods)

\* The Prophet branch of generate_forecast: predict() returns one row per
\* row of `future`, under a fresh RangeIndex.
ProphetForecast(m, periods, freq) ==
    LET future == MakeFutureDataframe(m, periods, freq)
        n == Len(m.dates)
    IN  [j \in 1..Len(future) |->
            Row(<<"int", j - 1>>, future[j],
                PredPoint(m, j - n), PredLower(m, j - n), PredUpper(m, j - n))]

\* The ARIMA branch of generate_forecast: the forecast Series and conf_int
\* are indexed by the model's own next timestamps; the 'date' column is the
\* date_range from last_date with its first element dropped.
ArimaForecast(m, periods, freq) ==
    LET future_dates == Tail(DateRange(LastDate(m), periods + 1, freq))
    IN  [k \in 1..periods |->
            Row(<<"ts", LastDate(m) + k * TrainStep(m)>>, future_dates[k],
                PredPoint(m, k), PredLower(m, k), PredUpper(m, k))]

generate_forecast(model_results, periods, freq) ==
    IF model_results.kind = "none" THEN EmptyFrame
    ELSE IF model_results.kind = "prophet" THEN ProphetForecast(model_results, periods, freq)
    ELSE ArimaForecast(model_results, periods, freq)

\* ------------------------------------------------------ ensemble_forecast
\* The `weights` argument: None, or a list of floats.
NoWeights == [none |-> TRUE, list |-> <<>>]

WeightList(w) == [none |-> FALSE, list |-> w]

\* [1.0 / len(model_results_list)] * len(model_results_list)
DefaultWeights(n) == [i \in 1..n |-> Scale \div n]

NotEmpty(frame) == Len(frame) > 0

\* The loop that calls generate_forecast(model_result, periods) on every
\* model (freq left at its default 'A') and keeps the non-empty frames.
CollectForecasts(model_results_list, periods) ==
    SelectSeq([i \in 1..Len(model_results_list) |->
                  generate_forecast(model_results_list[i], periods, "A")],
              NotEmpty)

HasLabel(frame, label) == \E r \in 1..Len(frame) : frame[r].idx = label

\* frame['forecast'] looked up by index label, NaN where the label is absent
\* (what pandas' alignment of two Series leaves at such a label).
ForecastAt(frame, label) ==
    IF HasLabel(frame, label)
    THEN frame[CHOOSE r \in 1..Len(frame) : frame[r].idx = label].forecast
    ELSE NaN

\* sum(forecasts[i]['forecast'] * weights[i] for i in range(len(forecasts))),
\* at one index label: Series are added label by label.
RECURSIVE WeightedSum(_, _, _, _)
WeightedSum(forecasts, weights, label, n) ==
    IF n = 0 THEN 0
    ELSE Add(WeightedSum(forecasts, weights, label, n - 1),
             Mul(ForecastAt(forecasts[n], label), weights[n]))

\* np.minimum.reduce / np.maximum.reduce over the list of columns, at one
\* row position: the columns are stacked by position, not by label.
\* The lower bound of the first forecast only, no reduction over the list.
MinLowerFirstOnly(forecasts, r, n) == forecasts[1][r].lower_ci

RECURSIVE MinLower(_, _, _)
MinLower(forecasts, r, n) ==
    IF n = 1 THEN forecasts[1][r].lower_ci
    ELSE LET rest == MinLower(forecasts, r, n - 1)
             x == forecasts[n][r].lower_ci
         IN  IF x < rest THEN x ELSE rest

RECURSIVE MaxUpper(_, _, _)
MaxUpper(forecasts, r, n) ==
    IF n = 1 THEN forecasts[1][r].upper_ci
    ELSE LET rest == MaxUpper(forecasts, r, n - 1)
             x == forecasts[n][r].upper_ci
         IN  IF x > rest THEN x ELSE rest

\* Stacking columns of different lengths is an error in numpy.
SameLength(forecasts) ==
    \A i \in 1..Len(forecasts) : Len(forecasts[i]) = Len(forecasts[1])

CombineForecasts(forecasts, weights) ==
    IF ~SameLength(forecasts) THEN Raised("ValueError")
    ELSE Returned([r \in 1..Len(forecasts[1]) |->
            Row(forecasts[1][r].idx, forecasts[1][r].date,
                WeightedSum(forecasts, weights, forecasts[1][r].idx, Len(forecasts)),
                MinLower(forecasts, r, Len(forecasts)),
                MaxUpper(forecasts, r, Len(forecasts)))])

ensemble_forecast(model_results_list, periods, weights) ==
    LET w == IF weights.none THEN DefaultWeights(Len(model_results_list))
             ELSE weights.list
        forecasts == CollectForecasts(model_results_list, periods)
    IN  IF Len(model_results_list) = 0 THEN Returned(EmptyFrame)
        ELSE IF Len(w) # Len(model_results_list) THEN Returned(EmptyFrame)
        ELSE IF Len(forecasts) = 0 THEN Returned(EmptyFrame)
        ELSE CombineForecasts(forecasts, w)

\* ----------------------------------------------------- generate_scenarios
\* scenario_df = base_forecast.copy() with the three value columns
\* multiplied by the scenario's multiplier; index and dates are kept.
\* Only the point forecast is multiplied, the interval is left as it was.
ScaleFramePointOnly(base_forecast, multiplier) ==
    [r \in 1..Len(base_forecast) |->
        Row(base_forecast[r].idx, base_forecast[r].date,
            Mul(base_forecast[r].forecast, multiplier),
            base_forecast[r].lower_ci,
            base_forecast[r].upper_ci)]

\* The lower bound is left as it was.
ScaleFrameLowerUnscaled(base_forecast, multiplier) ==
    [r \in 1..Len(base_forecast) |->
        Row(base_forecast[r].idx, base_forecast[r].date,
            Mul(base_forecast[r].forecast, multiplier),
            base_forecast[r].lower_ci,
            Mul(base_forecast[r].upper_ci, multiplier))]

ScaleFrame(base_forecast, multiplier) ==
    [r \in 1..Len(base_forecast) |->
        Row(base_forecast[r].idx, base_forecast[r].date,
            Mul(base_forecast[r].forecast, multiplier),
            Mul(base_forecast[r].lower_ci, multiplier),
            Mul(base_forecast[r].upper_ci, multiplier))]

\* The dict is filled with 'base' first and then with every item of
\* scenario_adjustments, a later assignment to a key replacing an earlier.
generate_scenarios(base_forecast, scenario_adjustments) ==
    [name \in {"base"} \cup DOMAIN scenario_adjustments |->
        IF name \in DOMAIN scenario_adjustments
        THEN ScaleFrame(base_forecast, scenario_adjustments[name])
        ELSE base_forecast]

\* ---------------------------------------------------- prepare_time_series
\* A row of the observation table.  value_numeric is NaN when it is null.
Observation(code, date, value) ==
    [indicator_code |-> code, observation_date |-> date, value_numeric |-> value]

\* df[df['indicator_code'] == indicator_code]
IsIndicator(row, indicator_code) == row.indicator_code = indicator_code

\* Null values are kept.
NotNaKeepsNull(row) == TRUE

\* ts_data[ts_data['value_numeric'].notna()]
NotNa(row) == row.value_numeric # NaN

RECURSIVE Filter(_, _)
Filter(df, indicator_code) ==
    IF df = <<>> THEN <<>>
    ELSE IF IsIndicator(Head(df), indicator_code) /\ NotNa(Head(df))
         THEN <<Head(df)>> \o Filter(Tail(df), indicator_code)
         ELSE Filter(Tail(df), indicator_code)

\* One insertion of sort_values('observation_date'): the row goes after the
\* rows already placed whose date is not later (rows of one date keep their
\* order on tables this small).
RECURSIVE InsertByDate(_, _)
InsertByDate(sorted, row) ==
    IF sorted = <<>> THEN <<row>>
    ELSE IF Head(sorted).observation_date <= row.observation_date
         THEN <<Head(sorted)>> \o InsertByDate(Tail(sorted), row)
         ELSE <<row>> \o sorted

RECURSIVE SortValues(_)
SortValues(df) ==
    IF df = <<>> THEN <<>>
    ELSE InsertByDate(SortValues(SubSeq(df, 1, Len(df) - 1)), df[Len(df)])

\* set_index('observation_date'), then the single column 'value'.
ValueRow(row) == [idx |-> <<"ts", row.observation_date>>, value |-> row.value_numeric]

\* The freq argument is accepted and never read.
prepare_time_series(df, indicator_code, freq) ==
    LET ts_data == SortValues(Filter(df, indicator_code))
    IN  [r \in 1..Len(ts_data) |-> ValueRow(ts_data[r])]

\* ------------------------------------------------------ validate_forecast
\* A float of the metrics: an exact fraction num/den (den > 0, lowest
\* terms), nan or +inf.  Rounding of float arithmetic is not modelled.
RECURSIVE Gcd(_, _)
Gcd(a, b) == IF b = 0 THEN a ELSE Gcd(b, a % b)

Abs(x) == IF x < 0 THEN 0 - x ELSE x

Frac(n, d) ==
    LET g == Gcd(Abs(n), Abs(d))
        s == IF d < 0 THEN 0 - 1 ELSE 1
    IN  [kind |-> "num", num |-> (s * n) \div g, den |-> (s * d) \div g]

FNaN == [kind |-> "nan", num |-> 0, den |-> 1]

FInf == [kind |-> "inf", num |-> 0, den |-> 1]

FAdd(x, y) ==
    IF x.kind = "nan" \/ y.kind = "nan" THEN FNaN
    ELSE IF x.kind = "inf" \/ y.kind = "inf" THEN FInf
    ELSE Frac(x.num * y.den + y.num * x.den, x.den * y.den)

\* The sign is kept.
FAbsKeepsSign(x) == x

\* np.abs, elementwise (only +inf arises below, from |x / 0|).
FAbs(x) == IF x.kind = "num" THEN Frac(Abs(x.num), x.den) ELSE x

\* x ** 2
FSquare(x) == IF x.kind = "num" THEN Frac(x.num * x.num, x.den * x.den) ELSE x

\* x * 100
FTimes100(x) == IF x.kind = "num" THEN Frac(x.num * 100, x.den) ELSE x

\* Float division, as in an elementwise Series division and in the mean:
\* x / 0 is inf in magnitude, 0 / 0 and inf / inf are nan, inf / y is inf,
\* x / inf is 0.
FDiv(x, y) ==
    IF x.kind = "nan" \/ y.kind = "nan" THEN FNaN
    ELSE IF x.kind = "inf" THEN (IF y.kind = "inf" THEN FNaN ELSE FInf)
    ELSE IF y.kind = "inf" THEN Frac(0, 1)
    ELSE IF y.num = 0 THEN (IF x.num = 0 THEN FNaN ELSE FInf)
    ELSE Frac(x.num * y.den, x.den * y.num)

\* Largest r with r * r <= x, for lo * lo <= x < (hi + 1) * (hi + 1).
RECURSIVE SqrtBetween(_, _, _)
SqrtBetween(x, lo, hi) ==
    IF lo = hi THEN lo
    ELSE LET mid == (lo + hi + 1) \div 2
         IN  IF mid * mid <= x THEN SqrtBetween(x, mid, hi)
             ELSE SqrtBetween(x, lo, mid - 1)

\* np.sqrt, kept to two decimals (rounded down).
FSqrt(x) ==
    IF x.kind # "num" THEN x
    ELSE Frac(SqrtBetween((x.num * 10000) \div x.den, 0, 10000), 100)

\* A pd.Series built from a list has the labels 0..n-1; a binary operation
\* on two Series works label by label over the union of the labels and
\* leaves nan where a label is missing on one side.
SeriesAt(series, i) == IF i <= Len(series) THEN Frac(series[i], 1) ELSE FNaN

UnionLength(a, b) == IF Len(a) >= Len(b) THEN Len(a) ELSE Len(b)

\* errors = actual - predicted
Errors(actual, predicted) ==
    [i \in 1..UnionLength(actual, predicted) |->
        IF SeriesAt(actual, i).kind = "nan" \/ SeriesAt(predicted, i).kind = "nan" THEN FNaN
        ELSE Frac(actual[i] - predicted[i], 1)]

\* errors / actual
ErrorsOverActual(errors, actual) ==
    [i \in 1..Len(errors) |-> FDiv(errors[i], SeriesAt(actual, i))]

RECURSIVE SumSkipNa(_)
SumSkipNa(values) ==
    IF values = <<>> THEN Frac(0, 1)
    ELSE IF Head(values).kind = "nan" THEN SumSkipNa(Tail(values))
         ELSE FAdd(Head(values), SumSkipNa(Tail(values)))

IsNum(x) == x.kind # "nan"

CountNotNa(values) == Len(SelectSeq(values, IsNum))

\* np.mean of a Series is Series.mean(): nan entries are skipped, and the
\* mean of nothing is nan.
SeriesMean(values) ==
    IF CountNotNa(values) = 0 THEN FNaN
    ELSE FDiv(SumSkipNa(values), Frac(CountNotNa(values), 1))

MapAbs(values) == [i \in 1..Len(values) |-> FAbs(values[i])]

MapSquare(values) == [i \in 1..Len(values) |-> FSquare(values[i])]

validate_forecast(actual, predicted) ==
    LET errors == Errors(actual, predicted)
    IN  [MAE  |-> SeriesMean(MapAbs(errors)),
         RMSE |-> FSqrt(SeriesMean(MapSquare(errors))),
         MAPE |-> FTimes100(SeriesMean(MapAbs(ErrorsOverActual(errors, actual))))]

\* ------------------------------------------------ create_event_indicators
\* Timestamps of this operation are day numbers (day 0 is 2020-01-01), so
\* that timedelta(days=lag_months * 30) is an addition.

\* f'event_{event_name}'
EventColumn(event_name) == <<"event_", event_name>>

\* The upper end of the window is left out.
InWindowOpenEnd(t, event_date, lag_months) ==
    t >= event_date /\ t < event_date + lag_months * 30

\* (indicators.index >= event_date) & (indicators.index <= lag_date)
InWindow(t, event_date, lag_months) ==
    t >= event_date /\ t <= event_date + lag_months * 30

\* One row per entry of `dates`, one column per event; .astype(int).
create_event_indicators(dates, event_dates, lag_months) ==
    [r \in 1..Len(dates) |->
        [idx |-> <<"ts", dates[r]>>,
         cols |-> [c \in {EventColumn(n) : n \in DOMAIN event_dates} |->
                     IF InWindow(dates[r], event_dates[c[2]], lag_months) THEN 1 ELSE 0]]]

\* ----------------------------------------- calculate_confidence_intervals
\* confidence_level is given in percent (95 for 0.95); a percentile rank is
\* held in tenths of a percent (25 for the 2.5th percentile); the bounds
\* returned are in thousandths of the unit of the forecast values.

\* The whole of alpha is put on the lower side.
LowerRankWholeAlpha(confidence_level) == (100 - confidence_level) * 10

\* lower_percentile = (alpha / 2) * 100, with alpha = 1 - confidence_level
LowerRank(confidence_level) == (100 - confidence_level) * 5

\* upper_percentile = (1 - alpha / 2) * 100
UpperRank(confidence_level) == 1000 - (100 - confidence_level) * 5

RECURSIVE InsertValue(_, _)
InsertValue(sorted, x) ==
    IF sorted = <<>> THEN <<x>>
    ELSE IF Head(sorted) <= x THEN <<Head(sorted)>> \o InsertValue(Tail(sorted), x)
         ELSE <<x>> \o sorted

RECURSIVE SortedValues(_)
SortedValues(values) ==
    IF values = <<>> THEN <<>>
    ELSE InsertValue(SortedValues(Tail(values)), Head(values))

\* np.percentile(values, rank) with numpy's default linear interpolation:
\* the virtual index (n - 1) * rank / 100 into the sorted values, the
\* fraction interpolated between the two neighbours.
Percentile(values, rank) ==
    LET v == SortedValues(values)
        h == (Len(v) - 1) * rank
        i == h \div 1000
        g == h % 1000
    IN  IF g = 0 THEN 1000 * v[i + 1]
        ELSE 1000 * v[i + 1] + g * (v[i + 2] - v[i + 1])

\* forecasts_array[:, k]: the values of all realizations at period k.
ColumnAt(forecasts, k) == [j \in 1..Len(forecasts) |-> forecasts[j][k]]

\* np.percentile(forecasts_array, ..., axis=0) for both ranks.
calculate_confidence_intervals(forecasts, confidence_level) ==
    [lower_bound |-> [k \in 1..Len(forecasts[1]) |->
                        Percentile(ColumnAt(forecasts, k), LowerRank(confidence_level))],
     upper_bound |-> [k \in 1..Len(forecasts[1]) |->
                        Percentile(ColumnAt(forecasts, k), UpperRank(confidence_level))]]

\* ---------------------------------------------------------- fit_arima_model
\* What the fitting library does with a call is not decided by this
\* repository: the import may fail, the fit may raise, or it returns a fitted
\* object, summarised by its level and interval half-widths.
Library(outcome, level, below, above) ==
    [outcome |-> outcome, level |-> level, below |-> below, above |-> above]

LibraryMissing == Library("ImportError", 0, 0, 0)

LibraryRaises == Library("Exception", 0, 0, 0)

\* try: ARIMA(ts_data['value'], order=order, exog=exog).fit(), the results
\* dict returned; except ImportError / except Exception: print, return {}.
\* ts_data is the sequence of its index timestamps.
fit_arima_model(ts_data, order, library) ==
    IF library.outcome = "fitted"
    THEN Returned(ModelResults("arima", ts_data, library.level, library.below, library.above))
    ELSE Returned(FailedFit)

\* -------------------------------------------------------- fit_prophet_model
\* ts_data is the sequence of its column names (the index is not a column);
\* custom_regressors is None or a list of names.
NoRegressors == [none |-> TRUE, list |-> <<>>]

RegressorList(names) == [none |-> FALSE, list |-> names]

\* What a Prophet fit returns: the model with the regressors added to it
\* and the training frame's columns.  fitted = FALSE is the {} of a failure.
ProphetResults(fitted, regressors, train_columns) ==
    [fitted |-> fitted, regressors |-> regressors, train_columns |-> train_columns]

FailedProphetFit == ProphetResults(FALSE, {}, <<>>)

\* ts_data.reset_index(): the index becomes the first column.
ResetIndex(columns) == <<"index">> \o columns

\* if custom_regressors: for regressor in custom_regressors:
\*     if regressor in prophet_df.columns  -- the columns are now ds and y
RequestedInFrame(custom_regressors) ==
    {custom_regressors.list[i] : i \in 1..Len(custom_regressors.list)} \cap {"ds", "y"}

\* The import, then prophet_df.columns = ['ds', 'y'] (a ValueError unless the
\* frame has exactly two columns), then add_regressor for the names found
\* among the columns (Prophet rejects the reserved names ds and y), then
\* model.fit; every exception is caught and {} returned.
fit_prophet_model(ts_data, custom_regressors, library) ==
    IF library.outcome = "ImportError" THEN Returned(FailedProphetFit)
    ELSE IF Len(ResetIndex(ts_data)) # 2 THEN Returned(FailedProphetFit)
    ELSE IF RequestedInFrame(custom_regressors) # {} THEN Returned(FailedProphetFit)
    ELSE IF library.outcome # "fitted" THEN Returned(FailedProphetFit)
    ELSE Returned(ProphetResults(TRUE, {}, <<"ds", "y">>))

\* --------------------------------------------------------- get_observations
\* A row of the unified table read by data_loader.  value_numeric is NaN
\* when it is null.  A table is its rows and whether it has the
\* observation_date column at all (rows of a table without it carry 0).
LoaderRecord(record_type, code, date, value) ==
    [record_type |-> record_type, indicator_code |-> code,
     observation_date |-> date, value_numeric |-> value]

Table(has_date, rows) == [has_observation_date |-> has_date, rows |-> rows]

\* The indicator_codes argument: None, or a list of codes.
NoCodes == [none |-> TRUE, list |-> <<>>]

CodeList(codes) == [none |-> FALSE, list |-> codes]

\* Every row counts as an observation.
IsObservationAnyType(row) == TRUE

\* df['record_type'] == 'observation'
IsObservation(row) == row.record_type = "observation"

\* observations['indicator_code'].isin(indicator_codes)
IsIn(row, codes) == \E i \in 1..Len(codes) : codes[i] = row.indicator_code

\* `if indicator_codes:` is false for None and for the empty list.
Truthy(indicator_codes) == ~indicator_codes.none /\ Len(indicator_codes.list) > 0

RECURSIVE FilterObservations(_, _)
FilterObservations(rows, indicator_codes) ==
    IF rows = <<>> THEN <<>>
    ELSE IF /\ IsObservation(Head(rows))
            /\ NotNa(Head(rows))
            /\ (Truthy(indicator_codes) => IsIn(Head(rows), indicator_codes.list))
         THEN <<Head(rows)>> \o FilterObservations(Tail(rows), indicator_codes)
         ELSE FilterObservations(Tail(rows), indicator_codes)

\* The three filters, then sort_values('observation_date') if the column
\* is there.
get_observations(df, indicator_codes) ==
    LET observations == FilterObservations(df.rows, indicator_codes)
    IN  IF df.has_observation_date
        THEN Table(TRUE, SortValues(observations))
        ELSE Table(FALSE, observations)

\* ------------------------------------------- calculate_pre_post_statistics
\* The table is a sequence of Observation rows whose values are plain
\* numbers (NaN when null).  An entry of the returned dict that may be None,
\* or a key that may be missing, is an Optional.
Absent(zero) == [none |-> TRUE, value |-> zero]

Some(v) == [none |-> FALSE, value |-> v]

\* df[df['indicator_code'] == indicator_code], then [value_column].notna():
\* Filter; then the rows before, and the rows on or after, the event date.
RECURSIVE Before(_, _)
Before(rows, event_date) ==
    IF rows = <<>> THEN <<>>
    ELSE IF Head(rows).observation_date < event_date
         THEN <<Head(rows)>> \o Before(Tail(rows), event_date)
         ELSE Before(Tail(rows), event_date)

RECURSIVE OnOrAfter(_, _)
OnOrAfter(rows, event_date) ==
    IF rows = <<>> THEN <<>>
    ELSE IF Head(rows).observation_date >= event_date
         THEN <<Head(rows)>> \o OnOrAfter(Tail(rows), event_date)
         ELSE OnOrAfter(Tail(rows), event_date)

RECURSIVE SumValues(_)
SumValues(rows) ==
    IF rows = <<>> THEN 0 ELSE Head(rows).value_numeric + SumValues(Tail(rows))

\* rows[value_column].mean() if len(rows) > 0 else None
MeanOrNone(rows) ==
    IF Len(rows) > 0 THEN Some(Frac(SumValues(rows), Len(rows))) ELSE Absent(FNaN)

\* pre_event[value_column].iloc[-1] if len(pre_event) > 0 else None
LastOrNone(rows) ==
    IF Len(rows) > 0 THEN Some(rows[Len(rows)].value_numeric) ELSE Absent(0)

\* post_event[value_column].iloc[0] if len(post_event) > 0 else None
FirstOrNone(rows) ==
    IF Len(rows) > 0 THEN Some(rows[1].value_numeric) ELSE Absent(0)

\* Python's truth value of an entry: None and 0 are false.
TruthValue(entry) == ~entry.none /\ entry.value # 0

calculate_pre_post_statistics(df, event_date, indicator_code) ==
    LET indicator_data == Filter(df, indicator_code)
        pre_event  == Before(indicator_data, event_date)
        post_event == OnOrAfter(indicator_data, event_date)
        pre_last   == LastOrNone(pre_event)
        post_first == FirstOrNone(post_event)
        changed    == TruthValue(pre_last) /\ TruthValue(post_first)
    IN  [indicator_code   |-> indicator_code,
         event_date       |-> event_date,
         pre_event_count  |-> Len(pre_event),
         post_event_count |-> Len(post_event),
         pre_event_mean   |-> MeanOrNone(pre_event),
         post_event_mean  |-> MeanOrNone(post_event),
         pre_event_last   |-> pre_last,
         post_event_first |-> post_first,
         immediate_change |->
             IF changed THEN Some(post_first.value - pre_last.value) ELSE Absent(0),
         immediate_change_pct |->
             IF changed
             THEN Some(Frac(100 * (post_first.value - pre_last.value), pre_last.value))
             ELSE Absent(FNaN)]

\* ------------------------------------------------- a caller's session
\* The objects a caller holds over several calls: its observation table
\* `df` and its `base_forecast`, and the objects the functions create and
\* write to while they run (`ts_data` in prepare_time_series, `scenario_df`
\* in generate_scenarios).  A write goes to the object a name refers to.
Heap(df, base_forecast, ts_data, scenario_df) ==
    [df |-> df, base_forecast |-> base_forecast,
     ts_data |-> ts_data, scenario_df |-> scenario_df]

\* The copy is the caller's frame itself.
FrameCopyShared(name) == name

\* scenario_df = base_forecast.copy(): a new object.
FrameCopy(name) == "scenario_df"

\* The loop of generate_scenarios over the items of scenario_adjustments,
\* given as <<name, multiplier>> pairs in the dict's order: each item copies
\* the base forecast and assigns the three scaled columns to the copy.
RECURSIVE ScenarioWrites(_, _)
ScenarioWrites(heap, adjustments) ==
    IF adjustments = <<>> THEN heap
    ELSE LET target == FrameCopy("base_forecast")
         IN  ScenarioWrites(
                 [heap EXCEPT ![target] =
                     ScaleFrame(heap["base_forecast"], Head(adjustments)[2])],
                 Tail(adjustments))

\* The dict of the <<name, multiplier>> pairs.
AsDict(adjustments) ==
    [name \in {adjustments[i][1] : i \in 1..Len(adjustments)} |->
        adjustments[CHOOSE i \in 1..Len(adjustments) : adjustments[i][1] = name][2]]

\* prepare_time_series builds ts_data from selections of df (new objects)
\* and sets its index in place; df is only read.
TimeSeriesWrites(heap, indicator_code) ==
    [heap EXCEPT !["ts_data"] = SortValues(Filter(heap["df"], indicator_code))]

\* ------------------------------------------------------------ input pools
Freqs == {"A", "Q", "M"}

FittedModels ==
    { ModelResults("arima",   <<12, 24, 36>>, 45, 5, 5),
      ModelResults("arima",   <<12, 24, 36>>, 47, 8, 2),
      ModelResults("arima",   <<18, 30, 42>>, 45, 5, 5),
      ModelResults("prophet", <<12, 24, 36>>, 45, 5, 5),
      ModelResults("prophet", <<12, 24, 36>>, 47, 8, 2),
      ModelResults("prophet", <<30, 42>>,     47, 8, 2) }

ModelPool == FittedModels \cup {FailedFit}

GenerateForecastArgs ==
    [model : ModelPool, periods : 1..MaxPeriods, freq : Freqs]

\* Lists of at most n elements of S.
RECURSIVE SeqsUpTo(_, _)
SeqsUpTo(S, n) ==
    IF n = 0 THEN {<<>>}
    ELSE LET shorter == SeqsUpTo(S, n - 1)
         IN  shorter \cup {Append(q, x) : q \in {t \in shorter : Len(t) = n - 1}, x \in S}

\* 0.0, 0.5 and 1.0
WeightValues == {0, Scale \div 2, Scale}

WeightArgs == {NoWeights} \cup {WeightList(w) : w \in SeqsUpTo(WeightValues, MaxModels)}

EnsembleForecastArgs ==
    [models : SeqsUpTo(ModelPool, MaxModels), periods : 1..MaxPeriods, weights : WeightArgs]

ScenarioNames == {"base", "accelerated", "stagnation"}

\* 1.10, 0.90, 0.0 and -1.0
Multipliers == {(11 * Scale) \div 10, (9 * Scale) \div 10, 0, 0 - Scale}

ScenarioAdjustments ==
    UNION {[names -> Multipliers] : names \in SUBSET ScenarioNames}

\* The base forecast of tests/test_forecasting_utils.py.
TestBaseForecast ==
    << Row(<<"int", 0>>, 72, Num(55), Num(50), Num(60)),
       Row(<<"int", 1>>, 84, Num(58), Num(53), Num(63)),
       Row(<<"int", 2>>, 96, Num(60), Num(55), Num(65)) >>

\* A forecast whose interval reaches below zero.
LowBaseForecast ==
    << Row(<<"int", 0>>, 72, Num(2), Num(0 - 3), Num(7)) >>

BaseForecasts ==
    {TestBaseForecast, LowBaseForecast}
    \cup {generate_forecast(m, MaxPeriods, "A") : m \in FittedModels}

GenerateScenariosArgs ==
    [base_forecast : BaseForecasts, scenario_adjustments : ScenarioAdjustments]

\* Most rows of an observation table a call passes.
MaxRows == 3

IndicatorCodes == {"ACC_OWNERSHIP", "USG_MOBILE"}

ObservationRows ==
    {Observation(c, d, v) : c \in IndicatorCodes, d \in {12, 24}, v \in {Num(40), Num(42), NaN}}

PrepareTimeSeriesArgs ==
    [df : SeqsUpTo(ObservationRows, MaxRows), indicator_code : {"ACC_OWNERSHIP"}, freq : Freqs]

\* Longest actual / predicted series a call passes.
MaxLen == 3

ActualValues == {0, 50, 55, 60}

PredictedValues == {0, 51, 54, 61}

ValidateForecastArgs ==
    [actual : SeqsUpTo(ActualValues, MaxLen), predicted : SeqsUpTo(PredictedValues, MaxLen)]

\* Most target timestamps a generated call of create_event_indicators passes.
MaxDates == 2

\* The month ends of 2020: pd.date_range('2020-01-01', periods=12, freq='M').
TestDates == <<30, 59, 90, 120, 151, 181, 212, 243, 273, 304, 334, 365>>

\* 2020-01-01, 2020-01-02, 2021-05-01 and 2023-01-01
EventDays == {0, 1, 486, 1096}

TargetDays == {0, 1, 30, 31, 180, 181, 182}

EventNames == {"telebirr", "mpesa"}

EventDates == UNION {[names -> EventDays] : names \in SUBSET EventNames}

CreateEventIndicatorsArgs ==
    [dates : SeqsUpTo(TargetDays, MaxDates) \cup {TestDates},
     event_dates : EventDates,
     lag_months : {0, 1, 6}]

\* Most forecast realizations a generated call passes.
MaxRealizations == 5

\* The forecasts of test_calculate_confidence_intervals.
TestForecasts == << <<50, 55, 60>>, <<52, 57, 62>>, <<48, 53, 58>> >>

\* One-period realizations, at least one.
RealizationLists == SeqsUpTo({<<1>>, <<2>>}, MaxRealizations) \ {<<>>}

ConfidenceIntervalsArgs ==
    [forecasts : RealizationLists \cup {TestForecasts}, confidence_level : {50, 95, 100}]

\* Longest series handed to a fit, and largest p, d or q.
MaxSeries == 5

MaxOrder == 1

\* A yearly series of the given length, December of each year.
YearlySeries(length) == [i \in 1..length |-> 12 * i]

Orders == (0..MaxOrder) \X (0..MaxOrder) \X (0..MaxOrder)

LibraryOutcomes == {LibraryMissing, LibraryRaises, Library("fitted", 45, 5, 5)}

FitArimaArgs ==
    [ts_data : {YearlySeries(n) : n \in 0..MaxSeries}, order : Orders,
     library : LibraryOutcomes]

\* Most regressor names a generated call requests.
MaxRegressors == 2

RegressorNames == {"event_telebirr", "event_mpesa", "y"}

InputFrames == {<<"value">>, <<"value", "event_telebirr">>}

FitProphetArgs ==
    [ts_data : InputFrames,
     custom_regressors : {NoRegressors} \cup
                         {RegressorList(q) : q \in SeqsUpTo(RegressorNames, MaxRegressors)},
     library : LibraryOutcomes]

\* Most rows of a generated table handed to get_observations.
MaxRecords == 3

LoaderRecords ==
    {LoaderRecord("event", "EVT_1", d, v) : d \in {12, 24}, v \in {NaN, Num(45)}}
    \cup {LoaderRecord("observation", c, d, v) :
             c \in {"ACC_OWNERSHIP", "MOBILE_MONEY"}, d \in {12, 24}, v \in {NaN, Num(45)}}

\* The tables of test_get_observations and test_get_observations_filtered,
\* which have no observation_date column.
TestTables ==
    { Table(FALSE, << LoaderRecord("event", "EVT_1", 0, NaN),
                      LoaderRecord("observation", "ACC_OWNERSHIP", 0, Num(45)),
                      LoaderRecord("observation", "MOBILE_MONEY", 0, Num(30)) >>),
      Table(FALSE, << LoaderRecord("observation", "ACC_OWNERSHIP", 0, Num(45)),
                      LoaderRecord("observation", "MOBILE_MONEY", 0, Num(30)),
                      LoaderRecord("observation", "ACC_OWNERSHIP", 0, Num(50)) >>) }

CodeArgs == {NoCodes, CodeList(<<>>), CodeList(<<"ACC_OWNERSHIP">>)}

GetObservationsArgs ==
    [df : {Table(TRUE, rows) : rows \in SeqsUpTo(LoaderRecords, MaxRecords)} \cup TestTables,
     indicator_codes : CodeArgs]

\* Most rows of a generated table handed to calculate_pre_post_statistics.
MaxStatRows == 3

StatRows ==
    {Observation("ACC_OWNERSHIP", d, v) : d \in {12, 24}, v \in {0, 10, NaN}}
    \cup {Observation("USG_MOBILE", 12, 10)}

\* The table of test_calculate_pre_post_statistics: the values 10..19 at the
\* first ten month ends of 2020 (day numbers), the event on 2020-06-01.
TestStatTable == [i \in 1..10 |-> Observation("ACC_OWNERSHIP", TestDates[i], 9 + i)]

TestEventDay == 152

PrePostStatisticsArgs ==
    [df : SeqsUpTo(StatRows, MaxStatRows), event_date : {12, 24, 36},
     indicator_code : {"ACC_OWNERSHIP"}]
    \cup [df : {TestStatTable}, event_date : {TestEventDay},
          indicator_code : {"ACC_OWNERSHIP"}]

\* Most rows of the caller's table, and most calls, in a session.
MaxSessionRows == 2

MaxCalls == 3

SessionRows ==
    { Observation("ACC_OWNERSHIP", 24, Num(42)),
      Observation("ACC_OWNERSHIP", 12, NaN),
      Observation("ACC_OWNERSHIP", 12, Num(40)) }

\* The scenario_adjustments a session passes: the accelerated scenario
\* alone, and accelerated followed by stagnation.
SessionAdjustments ==
    << << <<"accelerated", (11 * Scale) \div 10>> >>,
       << <<"accelerated", (11 * Scale) \div 10>>, <<"stagnation", (9 * Scale) \div 10>> >> >>

\* A result not yet returned in the session, and a returned one.
NotYet == [set |-> FALSE, val |-> <<>>]

Result(v) == [set |-> TRUE, val |-> v]

\* ---------------------------------------------------------------- machine
Init ==
    /\ pc = "call"
    /\ ret = Returned(EmptyFrame)
    /\ \/ op = "generate_forecast" /\ args \in GenerateForecastArgs
       \/ op = "ensemble_forecast" /\ args \in EnsembleForecastArgs
       \/ op = "generate_scenarios" /\ args \in GenerateScenariosArgs
       \/ op = "prepare_time_series" /\ args \in PrepareTimeSeriesArgs
       \/ op = "validate_forecast" /\ args \in ValidateForecastArgs
       \/ op = "create_event_indicators" /\ args \in CreateEventIndicatorsArgs
       \/ op = "calculate_confidence_intervals" /\ args \in ConfidenceIntervalsArgs
       \/ op = "fit_arima_model" /\ args \in FitArimaArgs
       \/ op = "fit_prophet_model" /\ args \in FitProphetArgs
       \/ op = "get_observations" /\ args \in GetObservationsArgs
       \/ op = "calculate_pre_post_statistics" /\ args \in PrePostStatisticsArgs

GenerateForecast ==
    /\ pc = "call"
    /\ op = "generate_forecast"
    /\ ret' = Returned(generate_forecast(args.model, args.periods, args.freq))
    /\ pc' = "done"
    /\ UNCHANGED <<op, args>>

EnsembleForecast ==
    /\ pc = "call"
    /\ op = "ensemble_forecast"
    /\ ret' = ensemble_forecast(args.models, args.periods, args.weights)
    /\ pc' = "done"
    /\ UNCHANGED <<op, args>>

GenerateScenarios ==
    /\ pc = "call"
    /\ op = "generate_scenarios"
    /\ ret' = Returned(generate_scenarios(args.base_forecast, args.scenario_adjustments))
    /\ pc' = "done"
    /\ UNCHANGED <<op, args>>

PrepareTimeSeries ==
    /\ pc = "call"
    /\ op = "prepare_time_series"
    /\ ret' = Returned(prepare_time_series(args.df, args.indicator_code, args.freq))
    /\ pc' = "done"
    /\ UNCHANGED <<op, args>>

ValidateForecast ==
    /\ pc = "call"
    /\ op = "validate_forecast"
    /\ ret' = Returned(validate_forecast(args.actual, args.predicted))
    /\ pc' = "done"
    /\ UNCHANGED <<op, args>>

CreateEventIndicators ==
    /\ pc = "call"
    /\ op = "create_event_indicators"
    /\ ret' = Returned(create_event_indicators(args.dates, args.event_dates, args.lag_months))
    /\ pc' = "done"
    /\ UNCHANGED <<op, args>>

CalculateConfidenceIntervals ==
    /\ pc = "call"
    /\ op = "calculate_confidence_intervals"
    /\ ret' = Returned(calculate_confidence_intervals(args.forecasts, args.confidence_level))
    /\ pc' = "done"
    /\ UNCHANGED <<op, args>>

FitArimaModel ==
    /\ pc = "call"
    /\ op = "fit_arima_model"
    /\ ret' = fit_arima_model(args.ts_data, args.order, args.library)
    /\ pc' = "done"
    /\ UNCHANGED <<op, args>>

FitProphetModel ==
    /\ pc = "call"
    /\ op = "fit_prophet_model"
    /\ ret' = fit_prophet_model(args.ts_data, args.custom_regressors, args.library)
    /\ pc' = "done"
    /\ UNCHANGED <<op, args>>

GetObservations ==
    /\ pc = "call"
    /\ op = "get_observations"
    /\ ret' = Returned(get_observations(args.df, args.indicator_codes))
    /\ pc' = "done"
    /\ UNCHANGED <<op, args>>

CalculatePrePostStatistics ==
    /\ pc = "call"
    /\ op = "calculate_pre_post_statistics"
    /\ ret' = Returned(calculate_pre_post_statistics(args.df, args.event_date,
                                                     args.indicator_code))
    /\ pc' = "done"
    /\ UNCHANGED <<op, args>>

Next ==
    \/ GenerateForecast
    \/ EnsembleForecast
    \/ GenerateScenarios
    \/ PrepareTimeSeries
    \/ ValidateForecast
    \/ CreateEventIndicators
    \/ CalculateConfidenceIntervals
    \/ FitArimaModel
    \/ FitProphetModel
    \/ GetObservations
    \/ CalculatePrePostStatistics

Spec == Init /\ [][Next]_vars

\* ------------------------------------------------------- session machine
\* A caller making several calls on the same objects.  args holds the
\* objects as they were at the start, the heap as it is now and the log of
\* the calls made, each <<operation, input>>; ret holds the latest result of
\* each operation and the first result returned for each input.
SessionInit ==
    /\ pc = "session"
    /\ op = "none"
    /\ \E df \in SeqsUpTo(SessionRows, MaxSessionRows),
          base_forecast \in {TestBaseForecast, LowBaseForecast} :
          args = [original |-> Heap(df, base_forecast, <<>>, <<>>),
                  heap |-> Heap(df, base_forecast, <<>>, <<>>),
                  log |-> <<>>]
    /\ ret = Returned([series |-> <<>>, scenarios |-> <<>>,
                       first_series |-> [c \in IndicatorCodes |-> NotYet],
                       first_scenarios |-> [k \in DOMAIN SessionAdjustments |-> NotYet]])

SessionPrepareTimeSeries ==
    /\ Len(args.log) < MaxCalls
    /\ \E indicator_code \in IndicatorCodes :
          LET ts_series == prepare_time_series(args.heap["df"], indicator_code, "A")
          IN  /\ args' = [args EXCEPT
                            !.heap = TimeSeriesWrites(args.heap, indicator_code),
                            !.log = Append(args.log, <<"prepare_time_series", indicator_code>>)]
              /\ ret' = Returned([ret.val EXCEPT
                            !.series = ts_series,
                            !.first_series[indicator_code] =
                                IF @.set THEN @ ELSE Result(ts_series)])
    /\ op' = "prepare_time_series"
    /\ UNCHANGED pc

SessionGenerateScenarios ==
    /\ Len(args.log) < MaxCalls
    /\ \E k \in DOMAIN SessionAdjustments :
          LET scenarios == generate_scenarios(args.heap["base_forecast"],
                                              AsDict(SessionAdjustments[k]))
          IN  /\ args' = [args EXCEPT
                            !.heap = ScenarioWrites(args.heap, SessionAdjustments[k]),
                            !.log = Append(args.log, <<"generate_scenarios", k>>)]
              /\ ret' = Returned([ret.val EXCEPT
                            !.scenarios = scenarios,
                            !.first_scenarios[k] = IF @.set THEN @ ELSE Result(scenarios)])
    /\ op' = "generate_scenarios"
    /\ UNCHANGED pc

SessionNext ==
    \/ SessionPrepareTimeSeries
    \/ SessionGenerateScenarios

SessionSpec == SessionInit /\ [][SessionNext]_vars

\* ----------------------------------------------------------------- claims
Done(o) == pc = "done" /\ op = o

\* The k-th anchor of the frequency strictly after the timestamp `last`.
NextPeriod(last, freq, k) == ((last \div FreqStep(freq)) + k) * FreqStep(freq)

\* The call raised an exception.  The error classes the specification names
\* are not classes of the source, so any exception counts as the failure.
Fails == ret.exc # "None"

Ordered(row) == Leq(row.lower_ci, row.forecast) /\ Leq(row.forecast, row.upper_ci)

\* C1: for every fitted model and horizon, generate_forecast returns exactly
\* `periods` rows, the k-th row dated at the k-th period after the last
\* observed timestamp at the given frequency, in strictly increasing order.
C1_ForecastCoversExactlyHorizon ==
    (Done("generate_forecast") /\ args.model.kind # "none") =>
        /\ Len(ret.val) = args.periods
        /\ \A k \in 1..Len(ret.val) :
              ret.val[k].date = NextPeriod(LastDate(args.model), args.freq, k)
        /\ \A k \in 1..(Len(ret.val) - 1) : ret.val[k].date < ret.val[k + 1].date

\* The weights a call of ensemble_forecast supplies, position by position
\* of model_results_list (equal weights when the argument is omitted).
SuppliedWeights ==
    IF args.weights.none THEN DefaultWeights(Len(args.models)) ELSE args.weights.list

WeightsMatch == Len(SuppliedWeights) = Len(args.models)

\* The forecast of the j-th model of the list, as ensemble_forecast asks for it.
ModelForecast(j) == generate_forecast(args.models[j], args.periods, "A")

\* The positions of the list whose model yields a forecast.
Forecasting == {j \in 1..Len(args.models) : args.models[j].kind # "none"}

\* The per-model forecasts do not line up period for period.
Misaligned ==
    \E i \in Forecasting, j \in Forecasting :
        \/ Len(ModelForecast(i)) # Len(ModelForecast(j))
        \/ \E r \in 1..Len(ModelForecast(i)) :
              ModelForecast(i)[r].date # ModelForecast(j)[r].date

\* C2: every row of the frame ensemble_forecast returns has
\* lower_ci <= forecast <= upper_ci, for every non-empty model list and every
\* weight list of matching length (the weights need not sum to 1).
C2_EnsembleRowsOrdered ==
    (Done("ensemble_forecast") /\ ret.exc = "None" /\ Len(args.models) > 0 /\ WeightsMatch) =>
        \A r \in 1..Len(ret.val) : Ordered(ret.val[r])

\* Sum over the forecasting models j <= n of (point of model j at row r)
\* times (the weight supplied at position j).
RECURSIVE SumBySuppliedWeight(_, _)
SumBySuppliedWeight(r, n) ==
    IF n = 0 THEN 0
    ELSE IF n \in Forecasting
         THEN SumBySuppliedWeight(r, n - 1)
              + (ModelForecast(n)[r].forecast * SuppliedWeights[n]) \div Scale
         ELSE SumBySuppliedWeight(r, n - 1)

\* C3: the ensemble's point estimate at each row is the weighted sum of the
\* per-model point estimates at that row, each model under the weight
\* supplied for it (equal weights 1/n when weights are omitted); stated for
\* per-model forecasts that line up period for period.
C3_PointIsWeightedSum ==
    (Done("ensemble_forecast") /\ ret.exc = "None" /\ Len(ret.val) > 0 /\ ~Misaligned) =>
        \A r \in 1..Len(ret.val) :
            ret.val[r].forecast = SumBySuppliedWeight(r, Len(args.models))

\* C4: at every row the ensemble's lower_ci is the least of the per-model
\* lower_ci at that row and its upper_ci the greatest of the per-model
\* upper_ci, so the ensemble interval contains every model's interval.
C4_BoundsAreMinMax ==
    (Done("ensemble_forecast") /\ ret.exc = "None" /\ Len(ret.val) > 0) =>
        \A r \in 1..Len(ret.val) :
            /\ \A j \in Forecasting :
                  /\ ret.val[r].lower_ci <= ModelForecast(j)[r].lower_ci
                  /\ ModelForecast(j)[r].upper_ci <= ret.val[r].upper_ci
            /\ \E j \in Forecasting : ret.val[r].lower_ci = ModelForecast(j)[r].lower_ci
            /\ \E j \in Forecasting : ret.val[r].upper_ci = ModelForecast(j)[r].upper_ci

\* An ensemble of two models was returned whose lower bound comes from one
\* model and whose upper bound from the other.
C4_Witness ==
    /\ Done("ensemble_forecast") /\ ret.exc = "None" /\ Len(ret.val) > 0
    /\ Forecasting = {1, 2}
    /\ ret.val[1].lower_ci < ModelForecast(1)[1].lower_ci
    /\ ret.val[1].upper_ci > ModelForecast(2)[1].upper_ci

\* C5: with a weight list whose length differs from the model list's,
\* ensemble_forecast fails with WeightCountMismatchError and produces no
\* forecast.
C5_WeightCountMismatchFails ==
    (Done("ensemble_forecast") /\ ~WeightsMatch) =>
        (Fails /\ Len(ret.val) = 0)

\* C6: ensemble_forecast fails with MisalignedForecastError whenever the
\* per-model forecasts differ in row count or in timestamps, and never
\* returns a combination of rows of different periods.
C6_MisalignedForecastsFail ==
    (Done("ensemble_forecast") /\ Len(args.models) > 0 /\ WeightsMatch /\ Misaligned) =>
        (Fails /\ Len(ret.val) = 0)

\* C7: whatever names scenario_adjustments holds, the returned ScenarioSet
\* has a "base" entry equal to the unadjusted base forecast.
C7_BaseEntryUnadjusted ==
    Done("generate_scenarios") =>
        /\ "base" \in DOMAIN ret.val
        /\ ret.val["base"] = args.base_forecast

\* C8: every named scenario with multiplier m has an entry under its name
\* with the rows and dates of the base forecast, whose forecast, lower_ci
\* and upper_ci are the base row's values times m.
C8_ScenarioIsBaseTimesMultiplier ==
    Done("generate_scenarios") =>
        \A name \in DOMAIN args.scenario_adjustments :
            /\ name \in DOMAIN ret.val
            /\ Len(ret.val[name]) = Len(args.base_forecast)
            /\ \A r \in 1..Len(args.base_forecast) :
                  LET m == args.scenario_adjustments[name]
                      b == args.base_forecast[r]
                      x == ret.val[name][r]
                  IN  /\ x.date = b.date
                      /\ x.forecast * Scale = b.forecast * m
                      /\ x.lower_ci * Scale = b.lower_ci * m
                      /\ x.upper_ci * Scale = b.upper_ci * m

\* The base forecast [55.0, 58.0, 60.0] under the multiplier 1.10 came back
\* as [60.5, 63.8, 66.0].
C8_Witness ==
    /\ Done("generate_scenarios")
    /\ args.base_forecast = TestBaseForecast
    /\ "accelerated" \in DOMAIN args.scenario_adjustments
    /\ args.scenario_adjustments["accelerated"] = (11 * Scale) \div 10
    /\ ret.val["accelerated"][1].forecast * 10 = Num(605)
    /\ ret.val["accelerated"][2].forecast * 10 = Num(638)
    /\ ret.val["accelerated"][3].forecast * 10 = Num(660)

\* C9: when every row of the base forecast has lower_ci <= forecast <=
\* upper_ci, so has every row of every scenario with a multiplier m > 0.
C9_PositiveMultiplierKeepsOrder ==
    (Done("generate_scenarios") /\ \A r \in 1..Len(args.base_forecast) : Ordered(args.base_forecast[r])) =>
        \A name \in DOMAIN args.scenario_adjustments :
            args.scenario_adjustments[name] > 0 =>
                \A r \in 1..Len(ret.val[name]) : Ordered(ret.val[name][r])

\* A scenario that shrinks (m = 0.90) a base forecast with distinct bounds
\* was returned.
C9_Witness ==
    /\ Done("generate_scenarios")
    /\ "stagnation" \in DOMAIN args.scenario_adjustments
    /\ args.scenario_adjustments["stagnation"] = (9 * Scale) \div 10
    /\ args.base_forecast[1].lower_ci < args.base_forecast[1].forecast
    /\ ret.val["stagnation"][1].lower_ci < ret.val["stagnation"][1].forecast
    /\ ret.val["stagnation"][1].forecast < args.base_forecast[1].forecast

\* C10: generate_scenarios fails with InvalidMultiplierError when a
\* multiplier is <= 0, and never returns a scenario with lower_ci > upper_ci.
C10_NonPositiveMultiplierFails ==
    Done("generate_scenarios") =>
        /\ (\E name \in DOMAIN args.scenario_adjustments :
                args.scenario_adjustments[name] <= 0)
             => Fails
        /\ ~Fails =>
             \A name \in DOMAIN ret.val : \A r \in 1..Len(ret.val[name]) :
                 ret.val[name][r].lower_ci <= ret.val[name][r].upper_ci

\* The rows of the table a call of prepare_time_series should keep: those of
\* the requested indicator with a value, at date d with value v.
MatchingRows(d, v) ==
    {i \in 1..Len(args.df) :
        /\ args.df[i].indicator_code = args.indicator_code
        /\ args.df[i].value_numeric # NaN
        /\ args.df[i].observation_date = d
        /\ args.df[i].value_numeric = v}

ReturnedRows(d, v) ==
    {r \in 1..Len(ret.val) : ret.val[r].idx = <<"ts", d>> /\ ret.val[r].value = v}

TableDates == {args.df[i].observation_date : i \in 1..Len(args.df)}

TableValues == {args.df[i].value_numeric : i \in 1..Len(args.df)}

\* C11: prepare_time_series returns exactly the input rows of the requested
\* indicator whose value is not null (each as often as the table holds it,
\* none added or dropped, whatever freq is), as (date, value) rows in
\* ascending date order.
C11_ExactlyMatchingRowsSorted ==
    Done("prepare_time_series") =>
        /\ ~Fails
        /\ \A d \in TableDates, v \in TableValues :
              Cardinality(ReturnedRows(d, v)) = Cardinality(MatchingRows(d, v))
        /\ \A r \in 1..Len(ret.val) :
              /\ ret.val[r].value # NaN
              /\ ret.val[r].idx[2] \in TableDates
              /\ Cardinality(MatchingRows(ret.val[r].idx[2], ret.val[r].value)) > 0
        /\ \A r \in 1..(Len(ret.val) - 1) : ret.val[r].idx[2] <= ret.val[r + 1].idx[2]

\* A table listing a later observation before an earlier one, with a null
\* row between them, came back as the two valued rows in date order under
\* the monthly frequency.
C11_Witness ==
    /\ Done("prepare_time_series")
    /\ args.freq = "M"
    /\ Len(args.df) = 3
    /\ args.df[1].observation_date > args.df[3].observation_date
    /\ args.df[2].indicator_code = args.indicator_code
    /\ args.df[2].value_numeric = NaN
    /\ Len(ret.val) = 2
    /\ ret.val[1].idx = <<"ts", args.df[3].observation_date>>
    /\ ret.val[2].value = args.df[1].value_numeric

\* C12: prepare_time_series fails when no row matches the indicator with a
\* value, and never returns an empty TimeSeries.
C12_EmptyInputFails ==
    Done("prepare_time_series") =>
        /\ (\A d \in TableDates, v \in TableValues : MatchingRows(d, v) = {}) => Fails
        /\ ~Fails => Len(ret.val) > 0

\* C13: the timestamps of the returned TimeSeries are strictly increasing,
\* also for tables holding several observations of the indicator on one date.
C13_TimestampsStrictlyIncreasing ==
    (Done("prepare_time_series") /\ ~Fails) =>
        \A r \in 1..(Len(ret.val) - 1) : ret.val[r].idx[2] < ret.val[r + 1].idx[2]

\* Sums over the positions 1..n of a call of validate_forecast.
RECURSIVE AbsErrSum(_)
AbsErrSum(n) ==
    IF n = 0 THEN 0 ELSE AbsErrSum(n - 1) + Abs(args.actual[n] - args.predicted[n])

RECURSIVE SqErrSum(_)
SqErrSum(n) ==
    IF n = 0 THEN 0
    ELSE SqErrSum(n - 1)
         + (args.actual[n] - args.predicted[n]) * (args.actual[n] - args.predicted[n])

\* Least common multiple of |actual[1]|, ..., |actual[n]| (none zero).
RECURSIVE ActualLcm(_)
ActualLcm(n) ==
    IF n = 0 THEN 1
    ELSE (ActualLcm(n - 1) * Abs(args.actual[n])) \div Gcd(ActualLcm(n - 1), Abs(args.actual[n]))

\* Sum of |error / actual| over the positions 1..n, times the common
\* denominator lcm.
RECURSIVE RelErrSum(_, _)
RelErrSum(n, lcm) ==
    IF n = 0 THEN 0
    ELSE RelErrSum(n - 1, lcm)
         + Abs(args.actual[n] - args.predicted[n]) * (lcm \div Abs(args.actual[n]))

SameLengths == Len(args.actual) = Len(args.predicted)

ZeroActual == \E i \in 1..Len(args.actual) : args.actual[i] = 0

\* MAE is mean(|actual - predicted|) over all positions.
MaeByFormula ==
    ret.val.MAE = Frac(AbsErrSum(Len(args.actual)), Len(args.actual))

\* RMSE is sqrt(mean((actual - predicted)^2)) over all positions, to the two
\* decimals the model keeps.
RmseByFormula ==
    LET n == Len(args.actual)
        r == (ret.val.RMSE.num * 100) \div ret.val.RMSE.den
    IN  /\ ret.val.RMSE.kind = "num"
        /\ r * ret.val.RMSE.den = ret.val.RMSE.num * 100
        /\ r >= 0
        /\ r * r * n <= 10000 * SqErrSum(n)
        /\ 10000 * SqErrSum(n) < (r + 1) * (r + 1) * n

\* C14: for equal-length series without a zero actual value, MAE, RMSE and
\* MAPE are mean(|e|), sqrt(mean(e^2)) and mean(|e / actual|) * 100 with
\* e = actual - predicted, and none is negative (stated for series of at
\* least one value, where the means exist).
C14_MetricsByFormula ==
    (Done("validate_forecast") /\ SameLengths /\ Len(args.actual) > 0 /\ ~ZeroActual) =>
        LET n == Len(args.actual)
            lcm == ActualLcm(n)
        IN  /\ ~Fails
            /\ MaeByFormula
            /\ RmseByFormula
            /\ ret.val.MAPE = Frac(100 * RelErrSum(n, lcm), n * lcm)
            /\ ret.val.MAE.num >= 0 /\ ret.val.RMSE.num >= 0 /\ ret.val.MAPE.num >= 0

\* actual = [50, 55, 60] and predicted = [51, 54, 61] gave MAE = 1.0,
\* RMSE = 1.0 and MAPE within 0.005 of 1.83.
C14_Witness ==
    /\ Done("validate_forecast")
    /\ args.actual = <<50, 55, 60>>
    /\ args.predicted = <<51, 54, 61>>
    /\ ret.val.MAE = Frac(1, 1)
    /\ ret.val.RMSE = Frac(1, 1)
    /\ 1825 * ret.val.MAPE.den <= 1000 * ret.val.MAPE.num
    /\ 1000 * ret.val.MAPE.num <= 1835 * ret.val.MAPE.den

\* C15: validate_forecast fails whenever actual and predicted differ in
\* length, and never returns metrics computed over a subset of positions
\* (stated for two series that each hold a value).
C15_LengthMismatchFails ==
    (Done("validate_forecast") /\ ~SameLengths /\ Len(args.actual) > 0 /\ Len(args.predicted) > 0) =>
        Fails

\* C16: with a zero among the actual values, validate_forecast does not
\* raise, MAPE is NaN, and MAE and RMSE are the values of their formulas.
C16_ZeroActualGivesNanMape ==
    (Done("validate_forecast") /\ SameLengths /\ ZeroActual) =>
        /\ ~Fails
        /\ ret.val.MAPE.kind = "nan"
        /\ MaeByFormula
        /\ RmseByFormula

\* C17: create_event_indicators returns one row per target timestamp and one
\* column 'event_<name>' per event; the cell of timestamp t and event e is 1
\* iff event_date(e) <= t <= event_date(e) + lag_months * 30 days, ends
\* included, and 0 otherwise, whatever the other events are.
C17_IndicatorIffInsideWindow ==
    Done("create_event_indicators") =>
        /\ ~Fails
        /\ Len(ret.val) = Len(args.dates)
        /\ \A r \in 1..Len(args.dates) :
              /\ ret.val[r].idx = <<"ts", args.dates[r]>>
              /\ DOMAIN ret.val[r].cols = {EventColumn(n) : n \in DOMAIN args.event_dates}
              /\ \A n \in DOMAIN args.event_dates :
                    LET cell == ret.val[r].cols[EventColumn(n)]
                        first == args.event_dates[n]
                        last == args.event_dates[n] + args.lag_months * 30
                    IN  /\ cell \in {0, 1}
                        /\ cell = 1 <=> (first <= args.dates[r] /\ args.dates[r] <= last)

\* With lag_months = 6, the timestamp 180 days after the telebirr event got
\* 1 and the next day got 0, while the mpesa column of a later event is 0
\* in both rows.
C17_Witness ==
    /\ Done("create_event_indicators")
    /\ args.lag_months = 6
    /\ DOMAIN args.event_dates = {"telebirr", "mpesa"}
    /\ args.event_dates["mpesa"] > args.event_dates["telebirr"] + 365
    /\ Len(args.dates) = 2
    /\ args.dates[1] = args.event_dates["telebirr"] + 180
    /\ args.dates[2] = args.dates[1] + 1
    /\ ret.val[1].cols[EventColumn("telebirr")] = 1
    /\ ret.val[2].cols[EventColumn("telebirr")] = 0
    /\ ret.val[1].cols[EventColumn("mpesa")] = 0
    /\ ret.val[2].cols[EventColumn("mpesa")] = 0

\* The values of all realizations of a call at period k.
ValuesAt(k) == {args.forecasts[j][k] : j \in 1..Len(args.forecasts)}

MinOf(S) == CHOOSE x \in S : \A y \in S : x <= y

MaxOf(S) == CHOOSE x \in S : \A y \in S : y <= x

\* Position of the lower and of the upper percentile among the sorted
\* realizations, in thousandths: (n - 1) * alpha / 2 and (n - 1) * (1 - alpha / 2).
LowerPosition == (Len(args.forecasts) - 1) * (100 - args.confidence_level) * 5

UpperPosition == (Len(args.forecasts) - 1) * (1000 - (100 - args.confidence_level) * 5)

\* How many realizations at period k lie below / above the bound b.
CountBelow(k, b) ==
    Cardinality({j \in 1..Len(args.forecasts) : 1000 * args.forecasts[j][k] < b})

CountAbove(k, b) ==
    Cardinality({j \in 1..Len(args.forecasts) : 1000 * args.forecasts[j][k] > b})

\* The bound b at period k sits at the position pos among the sorted
\* realizations: fewer than pos + 1 of them lie below it and fewer than
\* (n - 1) - pos + 1 above it.
AtPosition(k, b, pos) ==
    /\ 1000 * CountBelow(k, b) < pos + 1000
    /\ 1000 * CountAbove(k, b) < (Len(args.forecasts) - 1) * 1000 - pos + 1000

\* Both outputs have one entry per period, each is the percentile at its
\* position, lower <= upper, and both lie between the least and the
\* greatest realization of the period.
PercentileBounds ==
    /\ ~Fails
    /\ Len(ret.val.lower_bound) = Len(args.forecasts[1])
    /\ Len(ret.val.upper_bound) = Len(args.forecasts[1])
    /\ \A k \in 1..Len(args.forecasts[1]) :
          /\ AtPosition(k, ret.val.lower_bound[k], LowerPosition)
          /\ AtPosition(k, ret.val.upper_bound[k], UpperPosition)
          /\ ret.val.lower_bound[k] <= ret.val.upper_bound[k]
          /\ 1000 * MinOf(ValuesAt(k)) <= ret.val.lower_bound[k]
          /\ ret.val.upper_bound[k] <= 1000 * MaxOf(ValuesAt(k))

\* C18 as stated: the bounds are the percentiles, lower <= upper, between
\* the least and greatest realization, and lower < upper whenever the
\* realizations of a period are not all equal.
C18_StrictWheneverNotAllEqual ==
    Done("calculate_confidence_intervals") =>
        /\ PercentileBounds
        /\ \A k \in 1..Len(args.forecasts[1]) :
              Cardinality(ValuesAt(k)) > 1 => ret.val.lower_bound[k] < ret.val.upper_bound[k]

\* Two neighbours of the sorted realizations of period k differ on a stretch
\* that lies between the two percentile positions.
DiffersBetweenPositions(k) ==
    LET v == SortedValues(ColumnAt(args.forecasts, k))
    IN  \E i \in 1..(Len(v) - 1) :
            /\ v[i] < v[i + 1]
            /\ LowerPosition < i * 1000
            /\ (i - 1) * 1000 < UpperPosition
            /\ LowerPosition < UpperPosition

\* C18, amended: the bounds are the percentiles, lower <= upper, between the
\* least and greatest realization, and lower < upper exactly when two
\* neighbouring sorted realizations differ between the two percentile
\* positions.
C18_StrictIffDiffersBetweenPositions ==
    Done("calculate_confidence_intervals") =>
        /\ PercentileBounds
        /\ \A k \in 1..Len(args.forecasts[1]) :
              ret.val.lower_bound[k] < ret.val.upper_bound[k] <=> DiffersBetweenPositions(k)

\* The forecasts [[50,55,60],[52,57,62],[48,53,58]] at 95% gave the lower
\* bounds [48.1, 53.1, 58.1] and the upper bounds [51.9, 56.9, 61.9].
C18_Witness ==
    /\ Done("calculate_confidence_intervals")
    /\ args.forecasts = TestForecasts
    /\ args.confidence_level = 95
    /\ ret.val.lower_bound = <<48100, 53100, 58100>>
    /\ ret.val.upper_bound = <<51900, 56900, 61900>>

\* p + d + q + 2, the length below which the fit is to be refused.
MinLength(order) == order[1] + order[2] + order[3] + 2

\* C19: fit_arima_model fails with an error when the series is shorter than
\* p + d + q + 2; on a series at least that long which the library fits, it
\* returns the fitted model.
C19_ShortSeriesFails ==
    Done("fit_arima_model") =>
        /\ Len(args.ts_data) < MinLength(args.order) => Fails
        /\ (Len(args.ts_data) >= MinLength(args.order) /\ args.library.outcome = "fitted") =>
              (~Fails /\ ret.val.kind = "arima" /\ ret.val.dates = args.ts_data)

\* The regressor names a call asks for, and the columns of its frame.
Requested == {args.custom_regressors.list[i] : i \in 1..Len(args.custom_regressors.list)}

FrameColumns == {args.ts_data[i] : i \in 1..Len(args.ts_data)}

\* C20: fit_prophet_model fails with an error when a requested regressor is
\* not a column of the input frame, and a model it does fit has every
\* requested regressor added.
C20_UnknownRegressorFails ==
    Done("fit_prophet_model") =>
        /\ (Requested \ FrameColumns # {}) => Fails
        /\ (~Fails /\ ret.val.fitted) => Requested \subseteq ret.val.regressors

\* Some model of the list handed to ensemble_forecast is a failed fit.
HasFailedModel == \E j \in 1..Len(args.models) : args.models[j].kind = "none"

\* C21: a failed fit is surfaced as an error.  A fit the library does not
\* complete makes fit_arima_model and fit_prophet_model fail, and a failed
\* fit handed to generate_forecast or ensemble_forecast makes them fail
\* rather than return an empty or reduced frame.
C21_FailedFitSurfaces ==
    /\ (Done("fit_arima_model") /\ args.library.outcome # "fitted") => Fails
    /\ (Done("fit_prophet_model") /\ args.library.outcome # "fitted") => Fails
    /\ (Done("generate_forecast") /\ args.model.kind = "none") => Fails
    /\ (Done("ensemble_forecast") /\ HasFailedModel) => Fails

\* C23: when some models of the list are skipped for having no forecast,
\* the point estimate is still the sum of each contributing model's forecast
\* times the weight at that model's own position in the list.
C23_SkippedModelsKeepTheirWeights ==
    (/\ Done("ensemble_forecast")
     /\ ret.exc = "None"
     /\ Len(ret.val) > 0
     /\ ~Misaligned
     /\ HasFailedModel) =>
        \A r \in 1..Len(ret.val) :
            ret.val[r].forecast = SumBySuppliedWeight(r, Len(args.models))

\* The row is asked for: an observation with a value, of one of the given
\* codes when a non-empty list of codes is given.
AskedFor(row) ==
    /\ row.record_type = "observation"
    /\ row.value_numeric # NaN
    /\ (~args.indicator_codes.none /\ args.indicator_codes.list # <<>>) =>
          \E i \in 1..Len(args.indicator_codes.list) :
              args.indicator_codes.list[i] = row.indicator_code

\* How often the sequence of rows holds the row.
Occurrences(rows, row) == Cardinality({i \in 1..Len(rows) : rows[i] = row})

\* C22: get_observations returns exactly the rows asked for (each as often
\* as the table holds it, no event and no null-valued row), in ascending
\* observation_date order when the table has that column.
C22_ExactlyObservationsSorted ==
    Done("get_observations") =>
        /\ ~Fails
        /\ \A i \in 1..Len(args.df.rows) :
              Occurrences(ret.val.rows, args.df.rows[i]) =
                  IF AskedFor(args.df.rows[i])
                  THEN Occurrences(args.df.rows, args.df.rows[i]) ELSE 0
        /\ \A r \in 1..Len(ret.val.rows) :
              /\ Occurrences(args.df.rows, ret.val.rows[r]) > 0
              /\ ret.val.rows[r].record_type = "observation"
              /\ ret.val.rows[r].value_numeric # NaN
        /\ args.df.has_observation_date =>
              \A r \in 1..(Len(ret.val.rows) - 1) :
                  ret.val.rows[r].observation_date <= ret.val.rows[r + 1].observation_date

\* A dated table holding a later observation of the requested code, then an
\* event carrying a value, then an earlier observation of the same code came
\* back, under a code list, as the two observations, the earlier one first.
C22_Witness ==
    /\ Done("get_observations")
    /\ args.df.has_observation_date
    /\ Len(args.df.rows) = 3
    /\ args.df.rows[1] = LoaderRecord("observation", "ACC_OWNERSHIP", 24, Num(45))
    /\ args.df.rows[2].record_type = "event"
    /\ args.df.rows[2].value_numeric # NaN
    /\ args.df.rows[3] = LoaderRecord("observation", "ACC_OWNERSHIP", 12, Num(45))
    /\ args.indicator_codes = CodeList(<<"ACC_OWNERSHIP">>)
    /\ ret.val.rows = <<args.df.rows[3], args.df.rows[1]>>

\* The rows of the table that are non-null observations of the indicator.
IndicatorRows ==
    {i \in 1..Len(args.df) :
        /\ args.df[i].indicator_code = args.indicator_code
        /\ args.df[i].value_numeric # NaN}

\* C24: the non-null observations of the indicator are split into those
\* strictly before the event date and those on or after it, the two counts
\* adding up to their number; and whenever both sides are non-empty the
\* result holds immediate_change = post_event_first - pre_event_last, also
\* when one of the two values is 0.
C24_SplitAndImmediateChange ==
    Done("calculate_pre_post_statistics") =>
        /\ ~Fails
        /\ ret.val.pre_event_count =
              Cardinality({i \in IndicatorRows : args.df[i].observation_date < args.event_date})
        /\ ret.val.post_event_count =
              Cardinality({i \in IndicatorRows : args.df[i].observation_date >= args.event_date})
        /\ ret.val.pre_event_count + ret.val.post_event_count = Cardinality(IndicatorRows)
        /\ (ret.val.pre_event_count > 0 /\ ret.val.post_event_count > 0) =>
              /\ ~ret.val.immediate_change.none
              /\ ret.val.immediate_change.value =
                    ret.val.post_event_first.value - ret.val.pre_event_last.value

\* The latest call of the session, as <<operation, input>>.
LatestCall == args.log[Len(args.log)]

\* The latest call returned what the first call with its input returned.
SameAsFirst ==
    IF LatestCall[1] = "prepare_time_series"
    THEN ret.val.first_series[LatestCall[2]] = Result(ret.val.series)
    ELSE ret.val.first_scenarios[LatestCall[2]] = Result(ret.val.scenarios)

\* C25: after any sequence of calls to prepare_time_series and
\* generate_scenarios the caller's observation table and base forecast hold
\* the rows and values they held at the start, and a call returns what the
\* first call with the same inputs returned, whatever was called in between.
C25_InputsUnchangedResultsRepeat ==
    /\ args.heap["df"] = args.original["df"]
    /\ args.heap["base_forecast"] = args.original["base_forecast"]
    /\ Len(args.log) > 0 => SameAsFirst

\* An unsorted table with a null row was prepared, then scenarios were
\* generated from the test's base forecast, then the table was prepared
\* again: both preparations returned the one valued row and the scenarios
\* hold the scaled forecast.
C25_Witness ==
    /\ args.log = << <<"prepare_time_series", "ACC_OWNERSHIP">>,
                     <<"generate_scenarios", 2>>,
                     <<"prepare_time_series", "ACC_OWNERSHIP">> >>
    /\ args.original["df"] = << Observation("ACC_OWNERSHIP", 24, Num(42)),
                                Observation("ACC_OWNERSHIP", 12, NaN) >>
    /\ args.original["base_forecast"] = TestBaseForecast
    /\ Len(ret.val.series) = 1
    /\ ret.val.first_series["ACC_OWNERSHIP"] = Result(ret.val.series)
    /\ ret.val.scenarios["stagnation"][1].forecast = (Num(55) * 9) \div 10
    /\ args.heap["ts_data"] # args.original["df"]

====
